---- MODULE Spec2Model ----
(***************************************************************************)
(* Model of aws/internal/tfawsresource/testing.go: the two TypeSet check   *)
(* functions TestCheckTypeSetElemNestedAttrs and TestCheckTypeSetElemAttr. *)
(*                                                                         *)
(* A Go string is a sequence of tokens; the token "." is the separator     *)
(* strings.Split and strings.Join work on, every other token stands for a  *)
(* run of characters without a dot ("set", "0", "name", "*", ...).  The    *)
(* empty string is <<>>.  A Go map is a function; ranging over a map       *)
(* visits its keys in an order the runtime chooses.                        *)
(***************************************************************************)
EXTENDS Integers, Sequences, FiniteSets, TLC

VARIABLES
    op,          \* which check function is called: "nested" or "scalar"
    lookup,      \* what the state holds for res: "missing", "noprimary", "ok"
    attr,        \* the attr argument
    values,      \* the values argument (nested check)
    value,       \* the value argument (scalar check)
    Attributes,  \* is.Attributes, the flat map of the primary instance
    pc,          \* "start", "scan" (inside the range loop), "done"
    visited,     \* keys of is.Attributes the range loop has already yielded
    matches,     \* the matches map (nested check)
    matchCount,  \* the matchCount local (nested check)
    result,      \* "none" until the call ends, then its outcome
    compared,    \* keys that passed the length guard and were compared to attr
    counted,     \* keys that incremented a counter of matches
    first        \* outcome of the first call on these inputs, "none" before

vars == <<op, lookup, attr, values, value, Attributes, pc, visited, matches,
          matchCount, result, compared, counted, first>>

inputs == <<op, lookup, attr, values, value, Attributes>>

-----------------------------------------------------------------------------
(* Strings *)

Dot == "."

sentinelIndex == <<"*">>

\* the least index of a separator in s (s holds one)
FirstDot(s) == CHOOSE i \in 1..Len(s) : s[i] = Dot /\ \A j \in 1..(i-1) : s[j] # Dot

RECURSIVE Split(_)
\* strings.Split(s, "."): the segments between separators, at least one
Split(s) ==
    IF \A i \in 1..Len(s) : s[i] # Dot
    THEN <<s>>
    ELSE <<SubSeq(s, 1, FirstDot(s) - 1)>> \o Split(SubSeq(s, FirstDot(s) + 1, Len(s)))

RECURSIVE Join(_)
\* strings.Join(parts, "."): the empty string for no parts
Join(parts) ==
    IF parts = <<>> THEN <<>>
    ELSE IF Len(parts) = 1 THEN parts[1]
    ELSE parts[1] \o <<Dot>> \o Join(Tail(parts))

\* parts[len(parts)-1]
Last(parts) == parts[Len(parts)]

\* m[k] of a Go map[string]int: zero for an absent key
Get(m, k) == IF k \in DOMAIN m THEN m[k] ELSE 0

\* m[k] = v of a Go map
Put(m, k, v) == [x \in DOMAIN m \cup {k} |-> IF x = k THEN v ELSE m[x]]

EmptyMap == [x \in {} |-> 0]

-----------------------------------------------------------------------------
(* The inputs the calls are made with *)

\* the largest number of entries of is.Attributes in the enumerated states
MaxEntries == 2

AttrKeys ==
    { <<"set", ".", "0">>,
      <<"set", ".", "0", ".", "name">>,
      <<"set", ".", "0", ".", "port">>,
      <<"set", ".", "1", ".", "name">>,
      <<"set", ".", "1", ".", "port">>,
      <<"set", ".", "0", ".", "name", ".", "0", ".", "port">> }

AttrValues == { <<>>, <<"a">>, <<"b">> }

Patterns ==
    { <<"set", ".", "*">>,
      <<"set", ".", "0", ".", "*">>,
      <<"set", ".", "0", ".", "name", ".", "*">>,
      <<"*", ".", "*">>,
      <<"set">>,
      <<>>,
      <<"set", ".", "*", ".", "name">> }

NestedAttrs == { <<"name">>, <<"port">> }

\* the values maps: any subset of the nested attrs, each with any value
Criteria == UNION { [D -> AttrValues] : D \in SUBSET NestedAttrs }

\* the flat states: at most MaxEntries keys, each with any value
StateMaps ==
    UNION { [D -> AttrValues] : D \in { E \in SUBSET AttrKeys : Cardinality(E) <= MaxEntries } }

NoAttributes == [k \in {} |-> <<>>]

NoValues == [k \in {} |-> <<>>]

Call(o, l, a, vs, v, as) ==
    [op |-> o, lookup |-> l, attr |-> a, values |-> vs, value |-> v, Attributes |-> as]

NestedCalls == { Call("nested", "ok", a, vs, <<>>, as) : a \in Patterns, vs \in Criteria, as \in StateMaps }

ScalarCalls == { Call("scalar", "ok", a, NoValues, v, as) : a \in Patterns, v \in AttrValues, as \in StateMaps }

\* calls naming a resource the state lacks, or one without a primary instance
UnresolvedCalls ==
    { Call("nested", l, a, vs, <<>>, NoAttributes) : l \in {"missing", "noprimary"}, a \in Patterns, vs \in Criteria }
    \cup
    { Call("scalar", l, a, NoValues, v, NoAttributes) : l \in {"missing", "noprimary"}, a \in Patterns, v \in AttrValues }

(* The documented example calls *)

PatSetStar == <<"set", ".", "*">>

StateSetValueX == (<<"set", ".", "0", ".", "value">> :> <<"x">>)

StateSetElemX == (<<"set", ".", "0">> :> <<"x">>)

StateThree ==
    (<<"set", ".", "0", ".", "name">> :> <<"a">>)
    @@ (<<"set", ".", "0", ".", "port">> :> <<"80">>)
    @@ (<<"set", ".", "1", ".", "name">> :> <<"b">>)

StateSplit ==
    (<<"set", ".", "0", ".", "name">> :> <<"a">>)
    @@ (<<"set", ".", "1", ".", "port">> :> <<"80">>)

CritNamePort == (<<"name">> :> <<"a">>) @@ (<<"port">> :> <<"80">>)

CritNameC == (<<"name">> :> <<"c">>)

CallValueX == Call("scalar", "ok", PatSetStar, NoValues, <<"x">>, StateSetValueX)

CallValueY == Call("scalar", "ok", PatSetStar, NoValues, <<"y">>, StateSetValueX)

CallElemX == Call("scalar", "ok", PatSetStar, NoValues, <<"x">>, StateSetElemX)

CallElemY == Call("scalar", "ok", PatSetStar, NoValues, <<"y">>, StateSetElemX)

CallThreeNamePort == Call("nested", "ok", PatSetStar, CritNamePort, <<>>, StateThree)

CallThreeNameC == Call("nested", "ok", PatSetStar, CritNameC, <<>>, StateThree)

CallSplitNamePort == Call("nested", "ok", PatSetStar, CritNamePort, <<>>, StateSplit)

ExampleCalls ==
    { CallValueX, CallValueY, CallElemX, CallElemY,
      CallThreeNamePort, CallThreeNameC, CallSplitNamePort }

Calls == NestedCalls \cup ScalarCalls \cup UnresolvedCalls \cup ExampleCalls

\* the call in progress, as a record
TheCall == Call(op, lookup, attr, values, value, Attributes)

-----------------------------------------------------------------------------
(* TestCheckTypeSetElemNestedAttrs *)

\* a count that takes the empty values too
CountEveryValue(vs) == Cardinality(DOMAIN vs)

\* the loop of lines 56-60: the number of values that are not empty
NonEmptyCount(vs) == Cardinality({ k \in DOMAIN vs : vs[k] # <<>> })

\* the checks with the values counted before attr is split
PrecheckValuesFirst(l, a, vs) ==
    IF l = "missing" THEN "NotFound"
    ELSE IF l = "noprimary" THEN "NoPrimary"
    ELSE IF NonEmptyCount(vs) = 0 THEN "EmptyCriteria"
    ELSE IF Last(Split(a)) # sentinelIndex THEN "InvalidPattern"
    ELSE "scan"

\* lines 36-63: the checks made before the scan; "scan" when all pass
NestedPrecheck(l, a, vs) ==
    IF l = "missing" THEN "NotFound"
    ELSE IF l = "noprimary" THEN "NoPrimary"
    ELSE IF Last(Split(a)) # sentinelIndex THEN "InvalidPattern"
    ELSE IF NonEmptyCount(vs) = 0 THEN "EmptyCriteria"
    ELSE "scan"

\* line 69: the shortest flatmap address of a nested attr is foo.0.name
MinKeyParts == 3

\* the guard with the bound one less
ShorterThanTwo(stateKeyParts) == Len(stateKeyParts) < 2

TooShort(stateKeyParts) == Len(stateKeyParts) < MinKeyParts

RECURSIVE PathLoop(_, _, _)
\* lines 73-80 from index i on: "match" (pathMatch set), "break", or "panic"
\* when stateKeyParts[i] is read past its end
PathLoop(attrParts, stateKeyParts, i) ==
    IF i > Len(stateKeyParts) THEN "panic"
    ELSE IF attrParts[i] # stateKeyParts[i] /\ attrParts[i] # sentinelIndex THEN "break"
    ELSE IF i = Len(attrParts) THEN "match"
    ELSE PathLoop(attrParts, stateKeyParts, i + 1)

\* line 84
ElemId(attrParts, stateKeyParts) == stateKeyParts[Len(attrParts)]

\* line 85
NestedAttr(attrParts, stateKeyParts) ==
    Join(SubSeq(stateKeyParts, Len(attrParts) + 1, Len(stateKeyParts)))

\* line 86
CriterionHit(vs, nestedAttr, stateValue) ==
    nestedAttr \in DOMAIN vs /\ vs[nestedAttr] = stateValue

NestedBegin ==
    /\ pc = "start"
    /\ op = "nested"
    /\ LET r == NestedPrecheck(lookup, attr, values) IN
         IF r = "scan"
         THEN /\ pc' = "scan"
              /\ matchCount' = NonEmptyCount(values)
              /\ result' = result
         ELSE /\ pc' = "done"
              /\ result' = r
              /\ matchCount' = matchCount
    /\ UNCHANGED <<inputs, visited, matches, compared, counted, first>>

\* one iteration of the range loop of lines 64-92, for a key the runtime picks
NestedIter ==
    /\ pc = "scan"
    /\ op = "nested"
    /\ \E stateKey \in (DOMAIN Attributes) \ visited :
         LET stateValue == Attributes[stateKey]
             stateKeyParts == Split(stateKey)
             attrParts == Split(attr)
         IN  /\ visited' = visited \cup {stateKey}
             /\ IF TooShort(stateKeyParts)
                THEN UNCHANGED <<pc, result, matches, compared, counted>>
                ELSE /\ compared' = compared \cup {stateKey}
                     /\ LET pm == PathLoop(attrParts, stateKeyParts, 1) IN
                          IF pm = "panic"
                          THEN /\ pc' = "done"
                               /\ result' = "panic"
                               /\ UNCHANGED <<matches, counted>>
                          ELSE IF pm = "break"
                          THEN UNCHANGED <<pc, result, matches, counted>>
                          ELSE LET id == ElemId(attrParts, stateKeyParts)
                                   nestedAttr == NestedAttr(attrParts, stateKeyParts)
                               IN  IF CriterionHit(values, nestedAttr, stateValue)
                                   THEN /\ matches' = Put(matches, id, Get(matches, id) + 1)
                                        /\ counted' = counted \cup {stateKey}
                                        /\ IF Get(matches, id) + 1 = matchCount
                                           THEN pc' = "done" /\ result' = "nil"
                                           ELSE UNCHANGED <<pc, result>>
                                   ELSE UNCHANGED <<pc, result, matches, counted>>
    /\ UNCHANGED <<inputs, matchCount, first>>

\* line 94: the range loop ended without a return
NestedEnd ==
    /\ pc = "scan"
    /\ op = "nested"
    /\ visited = DOMAIN Attributes
    /\ pc' = "done"
    /\ result' = "ElementNotFound"
    /\ UNCHANGED <<inputs, visited, matches, matchCount, compared, counted, first>>

-----------------------------------------------------------------------------
(* TestCheckTypeSetElemAttr *)

\* lines 107-121: the checks made before the scan; "scan" when all pass
ScalarPrecheck(l, a) ==
    IF l = "missing" THEN "NotFound"
    ELSE IF l = "noprimary" THEN "NoPrimary"
    ELSE IF Last(Split(a)) # sentinelIndex THEN "InvalidPattern"
    ELSE "scan"

RECURSIVE ScalarLoop(_, _, _)
\* lines 126-133 from index i on, for parts of equal length: TRUE when line
\* 131 returns nil, FALSE when line 128 breaks
ScalarLoop(attrParts, stateKeyParts, i) ==
    IF attrParts[i] # stateKeyParts[i] /\ attrParts[i] # sentinelIndex THEN FALSE
    ELSE IF i = Len(attrParts) THEN TRUE
    ELSE ScalarLoop(attrParts, stateKeyParts, i + 1)

\* the body without the comparison of line 123
HitAnyValue(attrParts, stateKey, stateValue, v) ==
    /\ Len(Split(stateKey)) = Len(attrParts)
    /\ ScalarLoop(attrParts, Split(stateKey), 1)

\* the body with line 125 accepting longer keys
HitLongerKey(attrParts, stateKey, stateValue, v) ==
    /\ stateValue = v
    /\ Len(Split(stateKey)) >= Len(attrParts)
    /\ ScalarLoop(attrParts, Split(stateKey), 1)

\* lines 123-135: the body of the range loop returns nil for this entry
ScalarHit(attrParts, stateKey, stateValue, v) ==
    /\ stateValue = v
    /\ Len(Split(stateKey)) = Len(attrParts)
    /\ ScalarLoop(attrParts, Split(stateKey), 1)

ScalarBegin ==
    /\ pc = "start"
    /\ op = "scalar"
    /\ LET r == ScalarPrecheck(lookup, attr) IN
         IF r = "scan"
         THEN pc' = "scan" /\ result' = result
         ELSE pc' = "done" /\ result' = r
    /\ UNCHANGED <<inputs, visited, matches, matchCount, compared, counted, first>>

\* one iteration of the range loop of lines 122-136, for a key the runtime picks
ScalarIter ==
    /\ pc = "scan"
    /\ op = "scalar"
    /\ \E stateKey \in (DOMAIN Attributes) \ visited :
         /\ visited' = visited \cup {stateKey}
         /\ IF ScalarHit(Split(attr), stateKey, Attributes[stateKey], value)
            THEN pc' = "done" /\ result' = "nil"
            ELSE UNCHANGED <<pc, result>>
    /\ UNCHANGED <<inputs, matches, matchCount, compared, counted, first>>

\* line 138: the range loop ended without a return
ScalarEnd ==
    /\ pc = "scan"
    /\ op = "scalar"
    /\ visited = DOMAIN Attributes
    /\ pc' = "done"
    /\ result' = "ElementNotFound"
    /\ UNCHANGED <<inputs, visited, matches, matchCount, compared, counted, first>>

-----------------------------------------------------------------------------
(* The returned TestCheckFunc is called again on the same state; every call *)
(* builds its locals afresh (lines 47, 55).                                 *)
Reinvoke ==
    /\ pc = "done"
    /\ first' = IF first = "none" THEN result ELSE first
    /\ pc' = "start"
    /\ result' = "none"
    /\ visited' = {}
    /\ matches' = EmptyMap
    /\ matchCount' = 0
    /\ compared' = {}
    /\ counted' = {}
    /\ UNCHANGED inputs

Init ==
    /\ \E c \in Calls :
         /\ op = c.op
         /\ lookup = c.lookup
         /\ attr = c.attr
         /\ values = c.values
         /\ value = c.value
         /\ Attributes = c.Attributes
    /\ pc = "start"
    /\ visited = {}
    /\ matches = EmptyMap
    /\ matchCount = 0
    /\ result = "none"
    /\ compared = {}
    /\ counted = {}
    /\ first = "none"

Next ==
    \/ NestedBegin
    \/ NestedIter
    \/ NestedEnd
    \/ ScalarBegin
    \/ ScalarIter
    \/ ScalarEnd
    \/ Reinvoke

Spec == Init /\ [][Next]_vars

-----------------------------------------------------------------------------
(* What the calls are required to do *)

Done == pc = "done"

Resolved == lookup = "ok"

\* attr ends with the sentinel
ValidPattern == Last(Split(attr)) = sentinelIndex

AllEmpty(vs) == \A k \in DOMAIN vs : vs[k] = <<>>

\* the key agrees with the pattern at each of the first n positions that is
\* not the sentinel
Agrees(attrParts, keyParts, n) ==
    \A i \in 1..n : attrParts[i] # sentinelIndex => attrParts[i] = keyParts[i]

\* some entry has the pattern's segment count, the expected value, and agrees
\* with the pattern's literal segments
ScalarSatisfied ==
    \E k \in DOMAIN Attributes :
        /\ Len(Split(k)) = Len(Split(attr))
        /\ Attributes[k] = value
        /\ Agrees(Split(attr), Split(k), Len(Split(attr)))

\* the state holds <pattern prefix>.<id>.<suffix> with the value expected of suffix
Carries(id, suffix) ==
    \E k \in DOMAIN Attributes :
        LET kp == Split(k)
            ap == Split(attr)
        IN  /\ Len(kp) > Len(ap)
            /\ Agrees(ap, kp, Len(ap) - 1)
            /\ kp[Len(ap)] = id
            /\ SubSeq(k, Len(k) - Len(suffix), Len(k)) = <<Dot>> \o suffix
            /\ Len(Split(suffix)) = Len(kp) - Len(ap)
            /\ Attributes[k] = values[suffix]

\* the segments the state keys hold at the sentinel position
ElementIds ==
    { Split(k)[Len(Split(attr))] :
        k \in { x \in DOMAIN Attributes : Len(Split(x)) >= Len(Split(attr)) } }

\* id satisfies every criterion whose expected value is not empty
FullMatch(id) == \A s \in DOMAIN values : values[s] # <<>> => Carries(id, s)

SomeFullMatch == \E id \in ElementIds : FullMatch(id)

NestedScanned == op = "nested" /\ Resolved /\ ValidPattern /\ ~AllEmpty(values) /\ Done

\* C1: the scalar check, for a pattern ending in the sentinel, returns nil
\* exactly when some entry has the pattern's segment count, the expected
\* value and the pattern's literal segments, and fails with ElementNotFound
\* otherwise.
ScalarContract ==
    (op = "scalar" /\ Resolved /\ ValidPattern /\ Done)
        => IF ScalarSatisfied THEN result = "nil" ELSE result = "ElementNotFound"

ScalarContractWitness ==
    /\ op = "scalar" /\ Done /\ result = "nil"
    /\ \E k \in DOMAIN Attributes : Attributes[k] # value
    /\ \E k \in DOMAIN Attributes : Len(Split(k)) # Len(Split(attr))

\* C2: a criterion with an empty expected value never increments a counter,
\* so a nil result of the nested check means one element id satisfies every
\* non-empty criterion.
EmptyCriterionNeverCounts ==
    /\ \A k \in counted :
         values[NestedAttr(Split(attr), Split(k))] # <<>>
    /\ (op = "nested" /\ Done /\ result = "nil") => SomeFullMatch

\* C3: when no single element id satisfies all the non-empty criteria the
\* nested check fails with ElementNotFound.
NoCrossIdBleed ==
    (NestedScanned /\ ~SomeFullMatch) => result = "ElementNotFound"

\* C4: the nested check returns nil when one element id carries every
\* non-empty criterion, and fails with ElementNotFound when no key under the
\* pattern carries any criterion's suffix with its expected value.
NestedComplete ==
    NestedScanned =>
        /\ SomeFullMatch => result = "nil"
        /\ (\A id \in ElementIds : \A s \in DOMAIN values : ~Carries(id, s))
              => result = "ElementNotFound"

\* C5: a later call on the same inputs, whatever order its range loop takes,
\* ends as the first call did.
OrderIndependent ==
    (Done /\ first # "none") => result = first

\* C6: a pattern whose last segment is not the sentinel makes both checks
\* fail with InvalidPattern before the range loop yields any key, whatever
\* the criteria.
InvalidPatternFirst ==
    (Resolved /\ ~ValidPattern)
        => /\ pc # "scan"
           /\ visited = {}
           /\ Done => result = "InvalidPattern"

InvalidPatternFirstWitness ==
    /\ op = "nested" /\ Done /\ result = "InvalidPattern"
    /\ DOMAIN values # {} /\ AllEmpty(values)
    /\ DOMAIN Attributes # {}

\* C7 as stated: criteria whose values are all empty make the nested check
\* fail with EmptyCriteria before any key is scanned.
EmptyCriteriaAlways ==
    (op = "nested" /\ Resolved /\ AllEmpty(values))
        => /\ pc # "scan"
           /\ visited = {}
           /\ Done => result = "EmptyCriteria"

\* C7 as amended: for a pattern ending in the sentinel, criteria whose values
\* are all empty make the nested check fail with EmptyCriteria before any key
\* is scanned.
EmptyCriteriaValidPattern ==
    (op = "nested" /\ Resolved /\ ValidPattern /\ AllEmpty(values))
        => /\ pc # "scan"
           /\ visited = {}
           /\ Done => result = "EmptyCriteria"

EmptyCriteriaWitness ==
    /\ op = "nested" /\ Done /\ result = "EmptyCriteria"
    /\ DOMAIN values # {}
    /\ DOMAIN Attributes # {}

\* C8 as stated: on {"set.0.value": "x"} with pattern "set.*" the scalar check
\* returns nil for "x" and ElementNotFound for "y".
ScalarExampleStated ==
    Done => /\ TheCall = CallValueX => result = "nil"
            /\ TheCall = CallValueY => result = "ElementNotFound"

\* C8 as amended: with pattern "set.*", on {"set.0": "x"} the scalar check
\* returns nil for "x" and ElementNotFound for "y"; on {"set.0.value": "x"},
\* whose key has three segments, it fails with ElementNotFound for both.
ScalarExampleAmended ==
    Done => /\ TheCall = CallElemX => result = "nil"
            /\ TheCall = CallElemY => result = "ElementNotFound"
            /\ TheCall = CallValueX => result = "ElementNotFound"
            /\ TheCall = CallValueY => result = "ElementNotFound"

ScalarExampleWitness ==
    Done /\ TheCall = CallValueX /\ result = "ElementNotFound"

\* C9 as stated, with the pattern length taken without the sentinel (the
\* reading that asks least): the nested check compares and counts only keys
\* long enough to hold the pattern's literal segments, the element id and at
\* least one nested field.
OnlyLongKeysExamined ==
    \A k \in compared \cup counted : Len(Split(k)) >= Len(Split(attr)) + 1

\* C9 as amended: the nested check compares exactly the yielded keys of at
\* least 3 segments, whatever the pattern's length; a key of fewer than 3
\* segments is skipped and never increments a counter.
OnlyThreePartKeysExamined ==
    op = "nested" =>
        /\ compared = { k \in visited : Len(Split(k)) >= 3 }
        /\ counted \subseteq compared

OnlyThreePartKeysWitness ==
    /\ op = "nested" /\ Len(Split(attr)) = 2
    /\ \E k \in counted : Len(Split(k)) = 3
    /\ \E k \in visited \ compared : Len(Split(k)) = 2

\* C10: with a pattern ending in the sentinel and a non-empty criterion the
\* nested check ends with nil or ElementNotFound and nothing else.
ScanNeverAborts ==
    NestedScanned => result \in {"nil", "ElementNotFound"}

====
